---- MODULE Spec2Model ----
(***************************************************************************)
(* Stripe payment completion pipeline of HOMEOWORKHELPER3000.              *)
(*                                                                         *)
(*   server/index.ts            POST /api/webhook/stripe: verification,    *)
(*                              classification, crediting, retry policy    *)
(*   components/StripeButton    client side completion poller              *)
(*                                                                         *)
(* server/storage.ts and the payment-status route are not part of the      *)
(* sources at hand; the session store is modelled from section 4.2 of the  *)
(* specification (atomic complete-and-credit).                             *)
(*                                                                         *)
(* Strings are tuples of one-character strings, so that parseInt and       *)
(* String.prototype.includes are computed and not assumed.                 *)
(***************************************************************************)
EXTENDS Integers, Sequences, FiniteSets, TLC

(***************************************************************************)
(* Bounds                                                                  *)
(***************************************************************************)
\* webhook requests received over a behaviour
MaxDeliveries == 3

\* checkout attempts (clicks on the button) over a behaviour
MaxAttempts == 2

\* status lookups issued over a behaviour
MaxLookups == 3

(***************************************************************************)
(* JavaScript values                                                       *)
(***************************************************************************)
\* an absent property (undefined / null)
Absent == <<"undefined">>

\* falsy operands of ||: undefined and the empty string
Falsy(v) == v = Absent \/ v = <<>>

\* a || b
JsOr(a, b) == IF Falsy(a) THEN b ELSE a

Num(n) == [nan |-> FALSE, n |-> n]

NaN == [nan |-> TRUE, n |-> 0]

\* x <= 0 on JavaScript numbers: every comparison with NaN is false
LeZero(x) == ~x.nan /\ x.n <= 0

DecDigits == {"0", "1", "2", "3", "4", "5", "6", "7", "8", "9"}

HexDigits == DecDigits \cup {"a", "b", "c", "d", "e", "f"}

DigitVal(c) ==
    CASE c = "0" -> 0 [] c = "1" -> 1 [] c = "2" -> 2 [] c = "3" -> 3
      [] c = "4" -> 4 [] c = "5" -> 5 [] c = "6" -> 6 [] c = "7" -> 7
      [] c = "8" -> 8 [] c = "9" -> 9 [] c = "a" -> 10 [] c = "b" -> 11
      [] c = "c" -> 12 [] c = "d" -> 13 [] c = "e" -> 14 [] c = "f" -> 15

RECURSIVE TrimStart(_)
TrimStart(s) ==
    IF s # <<>> /\ Head(s) = " " THEN TrimStart(Tail(s)) ELSE s

\* the longest prefix of digits of the radix, as [seen, val]
RECURSIVE ParseDigits(_, _, _, _)
ParseDigits(s, radix, acc, seen) ==
    IF s # <<>> /\ Head(s) \in (IF radix = 16 THEN HexDigits ELSE DecDigits)
    THEN ParseDigits(Tail(s), radix, acc * radix + DigitVal(Head(s)), TRUE)
    ELSE [seen |-> seen, val |-> acc]

\* parseInt(str) without a radix argument
ParseInt(str) ==
    LET t   == TrimStart(str)
        neg == t # <<>> /\ Head(t) = "-"
        u   == IF t # <<>> /\ Head(t) \in {"-", "+"} THEN Tail(t) ELSE t
        hex == Len(u) >= 2 /\ u[1] = "0" /\ u[2] \in {"x", "X"}
        d   == IF hex THEN ParseDigits(Tail(Tail(u)), 16, 0, FALSE)
                      ELSE ParseDigits(u, 10, 0, FALSE)
    IN  IF d.seen THEN Num(IF neg THEN 0 - d.val ELSE d.val) ELSE NaN

\* msg.includes(marker)
Includes(msg, marker) ==
    \E i \in 1..(Len(msg) - Len(marker) + 1) :
        SubSeq(msg, i, i + Len(marker) - 1) = marker

(***************************************************************************)
(* Payment sessions and users (data model of the session store)            *)
(***************************************************************************)
Users == {1, 2}

Sessions == {"cs_1", "cs_2"}

\* PaymentSession.userId, set at session creation, immutable
SessionUserId(s) == 1

\* PaymentSession.tokenAmount, set at session creation, immutable
SessionTokenAmount(s) == IF s = "cs_1" THEN 5 ELSE 7

UserStr(u) == IF u = 1 THEN <<"1">> ELSE <<"2">>

AmountStr(n) == IF n = 5 THEN <<"5">> ELSE <<"7">>

OtherUser(u) == IF u = 1 THEN 2 ELSE 1

OtherAmount(n) == IF n = 5 THEN 7 ELSE 5

(***************************************************************************)
(* Webhook requests                                                        *)
(***************************************************************************)
Event(type, id, user_id, cref, toks) ==
    [type |-> type, id |-> id, user_id |-> user_id,
     client_reference_id |-> cref, tokens |-> toks]

\* checkout.session.completed events as the Checkout Initiator's metadata
\* makes them, and with one field deviating from the session record
CompletedEvents ==
    LET E(s, a, b, c) == Event("checkout.session.completed", s, a, b, c)
        u(s)  == UserStr(SessionUserId(s))
        o(s)  == UserStr(OtherUser(SessionUserId(s)))
        t(s)  == AmountStr(SessionTokenAmount(s))
        t2(s) == AmountStr(OtherAmount(SessionTokenAmount(s)))
    IN  { E(s, u(s), Absent, t(s)) : s \in Sessions }
        \cup
        { E("cs_1", u("cs_1"), o("cs_1"), t("cs_1")),
          E("cs_1", Absent, u("cs_1"), t("cs_1")),
          E("cs_1", <<>>, u("cs_1"), t("cs_1")),
          E("cs_1", Absent, Absent, t("cs_1")),
          E("cs_1", <<"0">>, u("cs_1"), t("cs_1")),
          E("cs_1", <<"-", "1">>, Absent, t("cs_1")),
          E("cs_1", <<"x">>, u("cs_1"), t("cs_1")),
          E("cs_1", u("cs_1"), Absent, t2("cs_1")),
          E("cs_1", u("cs_1"), Absent, Absent),
          E("cs_1", u("cs_1"), Absent, <<"0">>),
          E("cs_1", u("cs_1"), Absent, <<"-", "5">>),
          E("cs_1", u("cs_1"), Absent, <<"a", "b", "c">>),
          E("cs_1", u("cs_1"), Absent, <<"5", ".", "9">>) }

OtherEvents ==
    { Event("payment_intent.succeeded", "cs_1", Absent, Absent, Absent),
      Event("checkout.session.expired", "cs_1", <<"1">>, Absent, <<"5">>) }

Events == CompletedEvents \cup OtherEvents

NoEvent == Event("none", "none", Absent, Absent, Absent)

\* the stripe-signature header against the raw body
Signatures == {"valid", "tampered", "malformed", "missing"}

Requests ==
    { [sig |-> "valid", body |-> e] : e \in Events }
    \cup
    { [sig |-> g, body |-> Event("checkout.session.completed", "cs_1",
                                 <<"1">>, Absent, <<"5">>)] :
        g \in Signatures \ {"valid"} }

NoRequest == [sig |-> "none", body |-> NoEvent]

(***************************************************************************)
(* Errors thrown by the storage import or by the store                     *)
(***************************************************************************)
Err(message, code) == [message |-> message, code |-> code]

\* network, connection and timeout conditions
TransientErrors ==
    { Err(<<"c", "o", "n", "n", "e", "c", "t", "i", "o", "n", " ",
            "l", "o", "s", "t">>, "none"),
      Err(<<"q", "u", "e", "r", "y", " ", "t", "i", "m", "e", "o", "u", "t">>,
          "none"),
      Err(<<"c", "o", "n", "n", "e", "c", "t", " ", "E", "C", "O", "N", "N",
            "R", "E", "F", "U", "S", "E", "D">>, "ECONNREFUSED"),
      Err(<<"c", "o", "n", "n", "e", "c", "t", " ", "E", "N", "E", "T", "U",
            "N", "R", "E", "A", "C", "H">>, "ENETUNREACH") }

\* data-integrity violations and thrown values without a message
PermanentErrors ==
    { Err(<<"d", "u", "p", "l", "i", "c", "a", "t", "e", " ", "k", "e", "y">>,
          "23505"),
      Err(Absent, "none") }

Errors == TransientErrors \cup PermanentErrors

NoError == Err(Absent, "no-error")

(***************************************************************************)
(* State                                                                   *)
(***************************************************************************)
Handlers == {1, 2}

VARIABLES
    secretSet,     \* process.env.STRIPE_WEBHOOK_SECRET is configured
    pc,            \* position of each handler invocation
    req,           \* the request an invocation handles
    event,         \* the verified event (let event)
    userId,        \* const userId
    tokens,        \* const tokens
    result,        \* outcome of await storage.completeStripePaymentAndCredit
    response,      \* the response sent by the invocation
    status,        \* PaymentSession.status
    completedAt,   \* PaymentSession.completedAt: how often it was stamped
    tokenBalance,  \* UserBalance.tokenBalance
    creditLog,     \* history: the balance increments made for each session
    delivered,     \* requests received so far (also the clock)
    isPending,     \* createCheckoutSession.isPending
    isProcessing,  \* const [isProcessing, setIsProcessing]
    attempt,       \* checkout attempts started so far
    timers,        \* pending setTimeout(pollPaymentStatus, ..) of each attempt
    inflight,      \* pollPaymentStatus calls awaiting their status lookup
    lookups,       \* history: status lookups issued by each attempt
    seen,          \* history: lookup outcomes observed by each attempt
    notified       \* history: toasts and callbacks of each attempt

serverVars == <<secretSet, pc, req, event, userId, tokens, result, response,
                status, completedAt, tokenBalance, creditLog, delivered>>

storeVars == <<status, completedAt, tokenBalance, creditLog>>

clientVars == <<isPending, isProcessing, attempt, timers, inflight, lookups,
                seen, notified>>

vars == <<serverVars, clientVars>>

NoResult == [kind |-> "none", alreadyCompleted |-> FALSE, newBalance |-> 0,
             error |-> NoError]

Returned(already, bal) ==
    [kind |-> "returned", alreadyCompleted |-> already, newBalance |-> bal,
     error |-> NoError]

Threw(e) ==
    [kind |-> "threw", alreadyCompleted |-> FALSE, newBalance |-> 0,
     error |-> e]

\* the import rejected with e: the store operation was never called
ImportThrew(e) ==
    [kind |-> "import-threw", alreadyCompleted |-> FALSE, newBalance |-> 0,
     error |-> e]

NoResponse == [code |-> 0, body |-> "none"]

Resp(code, body) == [code |-> code, body |-> body]

Attempts == 1..MaxAttempts

\* data.sessionId of the checkout session created for an attempt
AttemptSession(a) == IF a = 1 THEN "cs_1" ELSE "cs_2"

NoneSeen == [pending |-> 0, error |-> 0, completed |-> 0, failed |-> 0]

NoneNotified == [success |-> 0, failure |-> 0, blocked |-> 0, setup |-> 0,
                 invalidate |-> 0, onSuccess |-> 0, onError |-> 0]

Init ==
    /\ secretSet \in BOOLEAN
    /\ pc = [h \in Handlers |-> "idle"]
    /\ req = [h \in Handlers |-> NoRequest]
    /\ event = [h \in Handlers |-> NoEvent]
    /\ userId = [h \in Handlers |-> Num(0)]
    /\ tokens = [h \in Handlers |-> Num(0)]
    /\ result = [h \in Handlers |-> NoResult]
    /\ response = [h \in Handlers |-> NoResponse]
    /\ status = [s \in Sessions |-> "pending"]
    /\ completedAt = [s \in Sessions |-> 0]
    /\ tokenBalance = [u \in Users |-> 0]
    /\ creditLog = [s \in Sessions |-> <<>>]
    /\ delivered = 0
    /\ isPending = FALSE
    /\ isProcessing = FALSE
    /\ attempt = 0
    /\ timers = [a \in Attempts |-> 0]
    /\ inflight = [a \in Attempts |-> 0]
    /\ lookups = [a \in Attempts |-> 0]
    /\ seen = [a \in Attempts |-> NoneSeen]
    /\ notified = [a \in Attempts |-> NoneNotified]

(***************************************************************************)
(* Session store                                                           *)
(***************************************************************************)
\* CreditedStore writing the balance from a stale read of zero
CreditedStoreLostUpdate(s, u, n) ==
    [status       |-> [status EXCEPT ![s] = "completed"],
     completedAt  |-> [completedAt EXCEPT ![s] = @ + 1],
     tokenBalance |-> [tokenBalance EXCEPT ![u] = n],
     creditLog    |-> [creditLog EXCEPT ![s] = Append(@, <<u, n>>)]]

\* atomic complete-and-credit: the store after the operation
CreditedStore(s, u, n) ==
    [status       |-> [status EXCEPT ![s] = "completed"],
     completedAt  |-> [completedAt EXCEPT ![s] = @ + 1],
     tokenBalance |-> [tokenBalance EXCEPT ![u] = @ + n],
     creditLog    |-> [creditLog EXCEPT ![s] = Append(@, <<u, n>>)]]

\* completeStripePaymentAndCredit without the idempotency guard
completeWithoutGuard(h, s, u, n) ==
    LET st == CreditedStore(s, u, n)
    IN  /\ status' = st.status
        /\ completedAt' = st.completedAt
        /\ tokenBalance' = st.tokenBalance
        /\ creditLog' = st.creditLog
        /\ result' = [result EXCEPT ![h] = Returned(FALSE, st.tokenBalance[u])]

\* storage.completeStripePaymentAndCredit(sessionId, userId, tokenAmount),
\* one indivisible unit: h receives its result, the store changes
completeStripePaymentAndCredit(h, s, u, n) ==
    IF status[s] = "completed"
    THEN /\ result' = [result EXCEPT ![h] = Returned(TRUE, tokenBalance[u])]
         /\ UNCHANGED storeVars
    ELSE LET st == CreditedStore(s, u, n)
         IN  /\ status' = st.status
             /\ completedAt' = st.completedAt
             /\ tokenBalance' = st.tokenBalance
             /\ creditLog' = st.creditLog
             /\ result' = [result EXCEPT
                              ![h] = Returned(FALSE, st.tokenBalance[u])]

\* explicit processor failure notification: pending -> failed
MarkPaymentFailed(s) ==
    /\ status[s] = "pending"
    /\ status' = [status EXCEPT ![s] = "failed"]
    /\ UNCHANGED <<clientVars, secretSet, pc, req, event, userId, tokens, result,
                   response, completedAt, tokenBalance, creditLog, delivered>>

(***************************************************************************)
(* POST /api/webhook/stripe                                                *)
(***************************************************************************)
\* IsTransient looking at the message only
IsTransientByMessage(e) ==
    /\ e.message # Absent
    /\ \/ Includes(e.message, <<"c", "o", "n", "n", "e", "c", "t", "i", "o", "n">>)
       \/ Includes(e.message, <<"t", "i", "m", "e", "o", "u", "t">>)
       \/ Includes(e.message, <<"E", "C", "O", "N", "N", "R", "E", "F", "U",
                                "S", "E", "D">>)

\* the catch block taking no failure for transient
IsTransientNever(e) == FALSE

\* the catch block of the crediting try: transient or permanent
IsTransient(e) ==
    \/ (e.message # Absent /\
          Includes(e.message, <<"c", "o", "n", "n", "e", "c", "t", "i", "o", "n">>))
    \/ (e.message # Absent /\
          Includes(e.message, <<"t", "i", "m", "e", "o", "u", "t">>))
    \/ (e.message # Absent /\
          Includes(e.message, <<"E", "C", "O", "N", "N", "R", "E", "F", "U",
                                "S", "E", "D">>))
    \/ e.code = "ENETUNREACH"

\* the catch block asking for a retry after every failure
CatchResponseAlwaysRetry(e) == Resp(500, "Temporary error, please retry")

CatchResponse(e) ==
    IF IsTransient(e)
    THEN Resp(500, "Temporary error, please retry")
    ELSE Resp(200, "received")

\* const userId = parseInt(metadata?.user_id || client_reference_id || '0')
ResolveUserId(ev) ==
    ParseInt(JsOr(JsOr(ev.user_id, ev.client_reference_id), <<"0">>))

\* const tokens = parseInt(metadata?.tokens || '0')
ResolveTokens(ev) == ParseInt(JsOr(ev.tokens, <<"0">>))

\* if (userId <= 0 || tokens <= 0)
InvalidParameters(u, n) == LeZero(u) \/ LeZero(n)

\* the event type test taking every verified event
AnyEventType(ev) == ev.type # "none"

\* event.type === 'checkout.session.completed'
IsCheckoutCompleted(ev) == ev.type = "checkout.session.completed"

\* the handler without its secret check
SecretCheckSkipped == FALSE

\* if (!process.env.STRIPE_WEBHOOK_SECRET)
SecretMissing == ~secretSet

\* constructEvent accepting every signature
ConstructEventAcceptsAll(r) == FALSE

\* stripe.webhooks.constructEvent(req.body, sig, secret) throws
ConstructEventThrows(r) == r.sig # "valid"

\* the request arrives; the secret check; then await import('stripe')
Receive(h, r) ==
    /\ pc[h] = "idle"
    /\ delivered < MaxDeliveries
    /\ delivered' = delivered + 1
    /\ req' = [req EXCEPT ![h] = r]
    /\ IF SecretMissing
       THEN /\ response' = [response EXCEPT
                               ![h] = Resp(500, "Webhook not configured")]
            /\ pc' = [pc EXCEPT ![h] = "done"]
       ELSE /\ response' = [response EXCEPT ![h] = NoResponse]
            /\ pc' = [pc EXCEPT ![h] = "verifying"]
    /\ UNCHANGED <<clientVars, secretSet, event, userId, tokens, result, storeVars>>

\* stripe.webhooks.constructEvent, the event type test and the validation,
\* up to await import('./storage')
Verify(h) ==
    /\ pc[h] = "verifying"
    /\ IF ConstructEventThrows(req[h])
       THEN /\ response' = [response EXCEPT ![h] = Resp(400, "Bad signature")]
            /\ pc' = [pc EXCEPT ![h] = "done"]
            /\ UNCHANGED <<event, userId, tokens>>
       ELSE LET ev == req[h].body
                u  == ResolveUserId(ev)
                n  == ResolveTokens(ev)
            IN  /\ event' = [event EXCEPT ![h] = ev]
                /\ IF ~IsCheckoutCompleted(ev)
                   THEN /\ response' = [response EXCEPT ![h] = Resp(200, "OK")]
                        /\ pc' = [pc EXCEPT ![h] = "done"]
                        /\ UNCHANGED <<userId, tokens>>
                   ELSE /\ userId' = [userId EXCEPT ![h] = u]
                        /\ tokens' = [tokens EXCEPT ![h] = n]
                        /\ IF InvalidParameters(u, n)
                           THEN /\ response' = [response EXCEPT
                                                   ![h] = Resp(200, "received")]
                                /\ pc' = [pc EXCEPT ![h] = "done"]
                           ELSE /\ pc' = [pc EXCEPT ![h] = "importing"]
                                /\ UNCHANGED response
    /\ UNCHANGED <<clientVars, secretSet, req, result, storeVars, delivered>>

\* await import('./storage') resolves and the store operation is called
InvokeStorage(h) ==
    /\ pc[h] = "importing"
    /\ pc' = [pc EXCEPT ![h] = "crediting"]
    /\ UNCHANGED <<clientVars, secretSet, req, event, userId, tokens, result, response,
                   storeVars, delivered>>

\* await import('./storage') rejects: the catch block answers
ImportFails(h, e) ==
    /\ pc[h] = "importing"
    /\ result' = [result EXCEPT ![h] = ImportThrew(e)]
    /\ response' = [response EXCEPT ![h] = CatchResponse(e)]
    /\ pc' = [pc EXCEPT ![h] = "done"]
    /\ UNCHANGED <<clientVars, secretSet, req, event, userId, tokens,
                   storeVars, delivered>>

\* the store runs the operation for h
StorageCompletes(h) ==
    /\ pc[h] = "crediting"
    /\ ~userId[h].nan /\ ~tokens[h].nan
    /\ completeStripePaymentAndCredit(h, event[h].id, userId[h].n, tokens[h].n)
    /\ pc' = [pc EXCEPT ![h] = "returned"]
    /\ UNCHANGED <<clientVars, secretSet, req, event, userId, tokens, response, delivered>>

\* the store operation rejects and leaves the store as it was
StorageThrows(h, e) ==
    /\ pc[h] = "crediting"
    /\ result' = [result EXCEPT ![h] = Threw(e)]
    /\ pc' = [pc EXCEPT ![h] = "returned"]
    /\ UNCHANGED <<clientVars, secretSet, req, event, userId, tokens, response,
                   storeVars, delivered>>

\* the continuation after the await: the two 200 answers, or the catch block
Respond(h) ==
    /\ pc[h] = "returned"
    /\ response' = [response EXCEPT
                      ![h] = IF result[h].kind = "threw"
                             THEN CatchResponse(result[h].error)
                             ELSE Resp(200, "received")]
    /\ pc' = [pc EXCEPT ![h] = "done"]
    /\ UNCHANGED <<clientVars, secretSet, req, event, userId, tokens, result,
                   storeVars, delivered>>

\* the invocation is over; its locals are gone
Finish(h) ==
    /\ pc[h] = "done"
    /\ pc' = [pc EXCEPT ![h] = "idle"]
    /\ req' = [req EXCEPT ![h] = NoRequest]
    /\ event' = [event EXCEPT ![h] = NoEvent]
    /\ userId' = [userId EXCEPT ![h] = Num(0)]
    /\ tokens' = [tokens EXCEPT ![h] = Num(0)]
    /\ result' = [result EXCEPT ![h] = NoResult]
    /\ response' = [response EXCEPT ![h] = NoResponse]
    /\ UNCHANGED <<clientVars, secretSet, storeVars, delivered>>

(***************************************************************************)
(* StripeButton: checkout attempt and completion poller                    *)
(***************************************************************************)
\* <Button disabled={createCheckoutSession.isPending || isProcessing}>
ButtonDisabled == isPending \/ isProcessing

\* handleClick: createCheckoutSession.mutate()
handleClick ==
    /\ ~ButtonDisabled
    /\ attempt < MaxAttempts
    /\ attempt' = attempt + 1
    /\ isPending' = TRUE
    /\ UNCHANGED <<serverVars, isProcessing, timers, inflight, lookups, seen,
                   notified>>

\* onSuccess starting the polling chain whether or not the window opened
onSuccessOfCreatePollsAnyway(hasUrl, opened) ==
    /\ isPending
    /\ isPending' = FALSE
    /\ IF hasUrl
       THEN /\ isProcessing' = TRUE
            /\ timers' = [timers EXCEPT ![attempt] = @ + 1]
            /\ notified' = [notified EXCEPT
                               ![attempt].blocked =
                                   IF opened THEN @ ELSE @ + 1]
       ELSE UNCHANGED <<isProcessing, timers, notified>>
    /\ UNCHANGED <<serverVars, attempt, inflight, lookups, seen>>

\* createCheckoutSession.onSuccess(data): window.open gave a window or null
\* (data.url absent: nothing happens)
onSuccessOfCreate(hasUrl, opened) ==
    /\ isPending
    /\ isPending' = FALSE
    /\ IF hasUrl /\ opened
       THEN /\ isProcessing' = TRUE
            /\ timers' = [timers EXCEPT ![attempt] = @ + 1]
            /\ UNCHANGED notified
       ELSE IF hasUrl
       THEN /\ notified' = [notified EXCEPT ![attempt].blocked = @ + 1]
            /\ UNCHANGED <<isProcessing, timers>>
       ELSE UNCHANGED <<isProcessing, timers, notified>>
    /\ UNCHANGED <<serverVars, attempt, inflight, lookups, seen>>

\* createCheckoutSession.onError
onErrorOfCreate ==
    /\ isPending
    /\ isPending' = FALSE
    /\ notified' = [notified EXCEPT ![attempt].setup = @ + 1,
                                    ![attempt].onError = @ + 1]
    /\ UNCHANGED <<serverVars, isProcessing, attempt, timers, inflight,
                   lookups, seen>>

RECURSIVE SumUpTo(_, _)
SumUpTo(f, n) == IF n = 0 THEN 0 ELSE f[n] + SumUpTo(f, n - 1)

TotalLookups == SumUpTo(lookups, MaxAttempts)

\* a poll timer fires: pollPaymentStatus issues its status lookup
TimerFires(a) ==
    /\ timers[a] > 0
    /\ TotalLookups < MaxLookups
    /\ timers' = [timers EXCEPT ![a] = @ - 1]
    /\ inflight' = [inflight EXCEPT ![a] = @ + 1]
    /\ lookups' = [lookups EXCEPT ![a] = @ + 1]
    /\ UNCHANGED <<serverVars, isPending, isProcessing, attempt, seen,
                   notified>>

\* GET /api/payment-status/{sessionId}
PaymentStatus(s) == status[s]

\* where the notification step of a terminal branch may throw
ThrowPoints == {"none", "toast", "callback"}

\* the poll rescheduled on two paths at once
RescheduleTwice(a) == timers' = [timers EXCEPT ![a] = @ + 2]

\* setTimeout(pollPaymentStatus, 2000)
Reschedule(a) == timers' = [timers EXCEPT ![a] = @ + 1]

\* the lookup answered: the branches of pollPaymentStatus's try block
LookupReturns(a, throwAt) ==
    /\ inflight[a] > 0
    /\ inflight' = [inflight EXCEPT ![a] = @ - 1]
    /\ LET st == PaymentStatus(AttemptSession(a))
       IN  IF st = "completed"
           THEN /\ seen' = [seen EXCEPT ![a].completed = @ + 1]
                /\ isProcessing' = FALSE
                /\ notified' =
                     [notified EXCEPT
                        ![a].success =
                            IF throwAt = "toast" THEN @ ELSE @ + 1,
                        ![a].invalidate =
                            IF throwAt = "toast" THEN @ ELSE @ + 1,
                        ![a].onSuccess =
                            IF throwAt = "toast" THEN @ ELSE @ + 1]
                /\ IF throwAt = "none"
                   THEN UNCHANGED timers
                   ELSE Reschedule(a)
           ELSE IF st = "failed"
           THEN /\ seen' = [seen EXCEPT ![a].failed = @ + 1]
                /\ isProcessing' = FALSE
                /\ notified' =
                     [notified EXCEPT
                        ![a].failure =
                            IF throwAt = "toast" THEN @ ELSE @ + 1,
                        ![a].onError =
                            IF throwAt = "toast" THEN @ ELSE @ + 1]
                /\ IF throwAt = "none"
                   THEN UNCHANGED timers
                   ELSE Reschedule(a)
           ELSE /\ throwAt = "none"
                /\ seen' = [seen EXCEPT ![a].pending = @ + 1]
                /\ Reschedule(a)
                /\ UNCHANGED <<isProcessing, notified>>
    /\ UNCHANGED <<serverVars, isPending, attempt, lookups>>

\* the catch block logging the error and giving up
LookupFailsGivesUp(a) ==
    /\ inflight[a] > 0
    /\ inflight' = [inflight EXCEPT ![a] = @ - 1]
    /\ seen' = [seen EXCEPT ![a].error = @ + 1]
    /\ UNCHANGED <<serverVars, isPending, isProcessing, attempt, timers,
                   lookups, notified>>

\* apiRequest or statusResponse.json() threw: the catch block
LookupFails(a) ==
    /\ inflight[a] > 0
    /\ inflight' = [inflight EXCEPT ![a] = @ - 1]
    /\ seen' = [seen EXCEPT ![a].error = @ + 1]
    /\ Reschedule(a)
    /\ UNCHANGED <<serverVars, isPending, isProcessing, attempt, lookups,
                   notified>>

\* the checkout window of an attempt was opened: its polling chain exists
WindowOpened(a) == timers[a] + inflight[a] + lookups[a] > 0

\* the webhook delivery the processor makes for the session of an attempt
CheckoutRequest(a) ==
    LET s == AttemptSession(a)
    IN  [sig |-> "valid",
         body |-> Event("checkout.session.completed", s,
                        UserStr(SessionUserId(s)), Absent,
                        AmountStr(SessionTokenAmount(s)))]

Next ==
    \/ \E h \in Handlers, r \in Requests : Receive(h, r)
    \/ \E h \in Handlers : Verify(h)
    \/ \E h \in Handlers : InvokeStorage(h)
    \/ \E h \in Handlers, e \in Errors : ImportFails(h, e)
    \/ \E h \in Handlers : StorageCompletes(h)
    \/ \E h \in Handlers, e \in Errors : StorageThrows(h, e)
    \/ \E h \in Handlers : Respond(h)
    \/ \E h \in Handlers : Finish(h)
    \/ \E s \in Sessions : MarkPaymentFailed(s)

Spec == Init /\ [][Next]_vars

\* the client, with the webhook handler serving the processor's deliveries
PollerNext ==
    \/ handleClick
    \/ \E hasUrl \in BOOLEAN, opened \in BOOLEAN :
          onSuccessOfCreate(hasUrl, opened)
    \/ onErrorOfCreate
    \/ \E a \in Attempts : TimerFires(a)
    \/ \E a \in Attempts, t \in ThrowPoints : LookupReturns(a, t)
    \/ \E a \in Attempts : LookupFails(a)
    \/ \E a \in Attempts : WindowOpened(a) /\ Receive(1, CheckoutRequest(a))
    \/ Verify(1)
    \/ InvokeStorage(1)
    \/ StorageCompletes(1)
    \/ Respond(1)
    \/ Finish(1)
    \/ \E a \in Attempts :
          WindowOpened(a) /\ MarkPaymentFailed(AttemptSession(a))

\* the deployment has its webhook secret configured
PollerInit == Init /\ secretSet

SpecPoller == PollerInit /\ [][PollerNext]_vars

\* the processor delivers again the request that was answered 500
Redeliver(h) ==
    /\ pc[h] = "done"
    /\ response[h].code = 500
    /\ delivered < MaxDeliveries
    /\ delivered' = delivered + 1
    /\ event' = [event EXCEPT ![h] = NoEvent]
    /\ userId' = [userId EXCEPT ![h] = Num(0)]
    /\ tokens' = [tokens EXCEPT ![h] = Num(0)]
    /\ result' = [result EXCEPT ![h] = NoResult]
    /\ IF SecretMissing
       THEN /\ response' = [response EXCEPT
                               ![h] = Resp(500, "Webhook not configured")]
            /\ pc' = [pc EXCEPT ![h] = "done"]
       ELSE /\ response' = [response EXCEPT ![h] = NoResponse]
            /\ pc' = [pc EXCEPT ![h] = "verifying"]
    /\ UNCHANGED <<clientVars, secretSet, req, storeVars>>

\* at-least-once delivery of the completion event of session cs_1: a first
\* delivery, duplicates while a delivery is unanswered or was answered 500,
\* a redelivery after every 500; transient failures only, and none once the
\* last delivery is made (finitely many failures)
RetryNext ==
    \/ \E h \in Handlers :
          /\ \/ delivered = 0
             \/ \E h2 \in Handlers \ {h} :
                   pc[h2] # "idle" /\ response[h2].code # 200
          /\ Receive(h, CheckoutRequest(1))
    \/ \E h \in Handlers : Verify(h)
    \/ \E h \in Handlers : InvokeStorage(h)
    \/ \E h \in Handlers, e \in TransientErrors :
          delivered < MaxDeliveries /\ ImportFails(h, e)
    \/ \E h \in Handlers : StorageCompletes(h)
    \/ \E h \in Handlers, e \in TransientErrors :
          delivered < MaxDeliveries /\ StorageThrows(h, e)
    \/ \E h \in Handlers : Respond(h)
    \/ \E h \in Handlers : response[h].code # 500 /\ Finish(h)
    \/ \E h \in Handlers : Redeliver(h)

\* the server runs every continuation and the processor keeps delivering
SpecRetry == PollerInit /\ [][RetryNext]_vars /\ WF_vars(RetryNext)

(***************************************************************************)
(* Properties                                                              *)
(***************************************************************************)
RECURSIVE SumFor(_, _)
\* the amounts a credit log gave to user u
SumFor(log, u) ==
    IF log = <<>> THEN 0
    ELSE (IF Head(log)[1] = u THEN Head(log)[2] ELSE 0) + SumFor(Tail(log), u)

RECURSIVE SumOver(_, _)
SumOver(S, u) ==
    IF S = {} THEN 0
    ELSE LET s == CHOOSE x \in S : TRUE
         IN  SumFor(creditLog[s], u) + SumOver(S \ {s}, u)

\* all balance increments made for user u, over all sessions
Credited(u) == SumOver(Sessions, u)

\* the store operation was invoked by the invocation h and has not thrown
Invoked(h) == pc[h] \in {"crediting", "returned"} \/ result[h].kind \in {"returned", "threw"}

\* the step is one in which the store operation returns to h
Returns(h) == result[h].kind = "none" /\ result'[h].kind = "returned"

\* C1: however many verified completion events are delivered for a session,
\* its balance increment happens once: the call that finds no earlier credit
\* reports alreadyCompleted = false and adds exactly the amount it was given;
\* every later call reports alreadyCompleted = true and leaves the store alone.
C1_CreditedExactlyOnce ==
    [][ /\ \A s \in Sessions : Len(creditLog'[s]) <= 1
        /\ \A h \in Handlers :
             Returns(h) =>
               LET s == event[h].id
                   u == userId[h].n
               IN  /\ result'[h].alreadyCompleted = (creditLog[s] # <<>>)
                   /\ creditLog[s] # <<>> =>
                        /\ storeVars' = storeVars
                        /\ result'[h].newBalance = tokenBalance[u]
                   /\ creditLog[s] = <<>> =>
                        /\ creditLog'[s] = << <<u, tokens[h].n>> >>
                        /\ tokenBalance'[u] = tokenBalance[u] + tokens[h].n
                        /\ status'[s] = "completed"
      ]_vars

\* a second delivery for a credited session has returned alreadyCompleted
C1_Witness ==
    \E h \in Handlers :
        /\ result[h].kind = "returned"
        /\ result[h].alreadyCompleted
        /\ Len(creditLog[event[h].id]) = 1
        /\ tokenBalance[1] = SessionTokenAmount(event[h].id)

\* C2: two invocations in flight together for one session never both credit:
\* the session has one credit, at most one of them saw alreadyCompleted =
\* false (exactly one when they are the only deliveries), and every balance
\* is the sum of the credits made (no double credit, no lost increment).
C2_ConcurrentDeliveriesCreditOnce ==
    /\ \A u \in Users : tokenBalance[u] = Credited(u)
    /\ \A h1, h2 \in Handlers :
         (/\ h1 # h2
          /\ result[h1].kind = "returned"
          /\ result[h2].kind = "returned"
          /\ event[h1].id = event[h2].id)
         => /\ Len(creditLog[event[h1].id]) = 1
            /\ result[h1].alreadyCompleted \/ result[h2].alreadyCompleted
            /\ delivered = 2 =>
                 result[h1].alreadyCompleted # result[h2].alreadyCompleted

\* both invocations awaited the store together; one credited, the other did not
C2_Witness ==
    /\ pc[1] = "returned" /\ pc[2] = "returned"
    /\ event[1].id = event[2].id
    /\ result[1].kind = "returned" /\ result[2].kind = "returned"
    /\ result[1].alreadyCompleted # result[2].alreadyCompleted
    /\ delivered = 2

\* C3: every balance increment made for a session has the tokenAmount the
\* session recorded at creation.
C3_CreditEqualsSessionAmount ==
    \A s \in Sessions :
        \A i \in 1..Len(creditLog[s]) :
            creditLog[s][i][2] = SessionTokenAmount(s)

\* C4: a session's status changes only pending -> completed or pending ->
\* failed, and completedAt is stamped only once, at the step to completed.
C4_StatusMonotone ==
    [][ \A s \in Sessions :
          /\ status[s] # "pending" => status'[s] = status[s]
          /\ completedAt'[s] # completedAt[s] =>
               /\ completedAt[s] = 0
               /\ status[s] = "pending" /\ status'[s] = "completed"
      ]_vars

\* C5: a request whose signature constructEvent rejects is answered 400
\* "Bad signature"; the store operation is never invoked for it and none of
\* its steps changes a session or a balance.
C5_BadSignatureRejected ==
    [][ \A h \in Handlers :
          (secretSet /\ req'[h].sig \in Signatures \ {"valid"}) =>
             /\ pc'[h] \in {"verifying", "done"}
             /\ pc'[h] = "done" => response'[h] = Resp(400, "Bad signature")
             /\ event'[h] = NoEvent
             /\ ~Invoked(h)'
             /\ pc'[h] # pc[h] => storeVars' = storeVars
      ]_vars

\* a tampered request was answered 400 while a session was still pending
C5_Witness ==
    \E h \in Handlers :
        /\ pc[h] = "done"
        /\ req[h].sig = "tampered"
        /\ response[h].code = 400
        /\ status[req[h].body.id] = "pending"

\* a metadata value that is written as a strictly positive integer
DenotesPositiveInteger(v) ==
    /\ v # Absent
    /\ v # <<>>
    /\ \A i \in 1..Len(v) : v[i] \in DecDigits
    /\ \E i \in 1..Len(v) : v[i] # "0"

\* the user identifier the handler resolves for the event, as written
RawUserId(ev) == JsOr(ev.user_id, ev.client_reference_id)

InvalidPayload(ev) ==
    \/ ~DenotesPositiveInteger(RawUserId(ev))
    \/ ~DenotesPositiveInteger(ev.tokens)

\* C6: a verified completion event whose user identifier or token amount is
\* not a strictly positive integer is answered 200 at once and the store
\* operation is not invoked for it.
C6_InvalidPayloadAcknowledged ==
    \A h \in Handlers :
        (IsCheckoutCompleted(event[h]) /\ InvalidPayload(event[h])) =>
           /\ pc[h] = "done"
           /\ response[h].code = 200
           /\ result[h] = NoResult

\* the message of the error carries one of the connection/timeout markers
HasMarker(e) ==
    /\ e.message # Absent
    /\ \/ Includes(e.message, <<"c", "o", "n", "n", "e", "c", "t", "i", "o", "n">>)
       \/ Includes(e.message, <<"t", "i", "m", "e", "o", "u", "t">>)
       \/ Includes(e.message, <<"E", "C", "O", "N", "N", "R", "E", "F", "U",
                                "S", "E", "D">>)

\* the invocation h ended in the catch block of the crediting try
Caught(h) == pc[h] = "done" /\ result[h].kind \in {"threw", "import-threw"}

\* C7 as stated: 500 when the message has a marker, 200 for every other
\* failure.
C7_RetryOnMarkerOnly ==
    \A h \in Handlers :
        Caught(h) =>
          response[h].code = (IF HasMarker(result[h].error) THEN 500 ELSE 200)

\* C7 amended: 500 when the message has a marker or the error's code is
\* ENETUNREACH, 200 for every other failure.
C7_RetryOnMarkerOrCode ==
    \A h \in Handlers :
        Caught(h) =>
          response[h].code =
            (IF HasMarker(result[h].error) \/ result[h].error.code = "ENETUNREACH"
             THEN 500 ELSE 200)

\* failures answered 500 and 200 side by side, the 500 for a timeout message
C7_Witness ==
    \E h1, h2 \in Handlers :
        /\ Caught(h1) /\ response[h1].code = 500
        /\ result[h1].kind = "threw"
        /\ result[h1].error.code = "none"
        /\ Caught(h2) /\ response[h2].code = 200
        /\ result[h2].error.message # Absent

\* C8: a verified event of another type is answered 200; the store
\* operation is not invoked for it and none of its steps changes a session
\* or a balance.
C8_OtherEventsIgnored ==
    [][ \A h \in Handlers :
          (/\ secretSet
           /\ req'[h].sig = "valid"
           /\ req'[h].body.type # "checkout.session.completed") =>
             /\ pc'[h] \in {"verifying", "done"}
             /\ pc'[h] = "done" => response'[h] = Resp(200, "OK")
             /\ ~Invoked(h)'
             /\ result'[h] = NoResult
             /\ pc'[h] # pc[h] => storeVars' = storeVars
      ]_vars

\* an event of another type was verified and answered 200
C8_Witness ==
    \E h \in Handlers :
        /\ pc[h] = "done"
        /\ event[h].type = "checkout.session.expired"
        /\ response[h].code = 200
        /\ status[event[h].id] = "pending"

\* C9: a chain whose lookups returned pending k times and then completed
\* has issued k+1 lookups and has no timer and no lookup left.
C9_PollerStopsAfterCompleted ==
    \A a \in Attempts :
        (seen[a].completed >= 1 /\ seen[a].error = 0 /\ seen[a].failed = 0) =>
           /\ lookups[a] = seen[a].pending + 1
           /\ timers[a] = 0
           /\ inflight[a] = 0

\* C10: without the webhook secret every request is answered 500 "Webhook
\* not configured" (not 200, not the 400 of a bad signature), no event is
\* verified, the store operation is never invoked and nothing is credited.
C10_UnconfiguredSecretRejects ==
    ~secretSet =>
       /\ \A h \in Handlers :
            /\ pc[h] \in {"idle", "done"}
            /\ pc[h] = "done" =>
                 /\ response[h].code = 500
                 /\ response[h].code # 200
                 /\ response[h] # Resp(400, "Bad signature")
                 /\ response[h].body = "Webhook not configured"
            /\ event[h] = NoEvent
            /\ ~Invoked(h)
            /\ result[h] = NoResult
       /\ \A s \in Sessions : creditLog[s] = <<>> /\ status[s] # "completed"
       /\ \A u \in Users : tokenBalance[u] = 0

\* a validly signed completion event was answered 500 for want of the secret
C10_Witness ==
    \E h \in Handlers :
        /\ ~secretSet
        /\ pc[h] = "done"
        /\ req[h].sig = "valid"
        /\ IsCheckoutCompleted(req[h].body)
        /\ response[h].code = 500

\* C11: when the checkout window cannot be opened the attempt ends blocked:
\* one "Popup blocked" toast, isProcessing false after the step, and the
\* attempt never has a poll timer, a lookup in flight or a lookup issued.
C11_PopupBlockedIsTerminal ==
    [][ \A a \in Attempts :
          /\ notified'[a].blocked > notified[a].blocked =>
               /\ ~isProcessing /\ ~isProcessing'
               /\ timers' = timers /\ inflight' = inflight
          /\ notified'[a].blocked >= 1 =>
               /\ notified'[a].blocked = 1
               /\ timers'[a] = 0 /\ inflight'[a] = 0 /\ lookups'[a] = 0
               /\ seen'[a] = NoneSeen
      ]_vars

\* the first attempt was blocked; a second one is polling and the first
\* still has no timer and no lookup
C11_Witness ==
    /\ notified[1].blocked = 1
    /\ lookups[1] = 0 /\ timers[1] = 0
    /\ attempt = 2
    /\ lookups[2] >= 1

\* C12: with a redelivery after every 500 and finitely many transient
\* failures, session cs_1 ends completed with its amount credited once; a
\* failed reconciliation changes no session and no balance.
C12_RetriedUntilCreditedOnce ==
    /\ <>[](/\ status["cs_1"] = "completed"
            /\ Len(creditLog["cs_1"]) = 1
            /\ tokenBalance[1] = SessionTokenAmount("cs_1"))
    /\ [][ \A h \in Handlers :
             (result[h].kind = "none" /\
              result'[h].kind \in {"threw", "import-threw"}) =>
                storeVars' = storeVars ]_vars

\* a delivery was answered 500 and another delivery made the one credit
C12_Witness ==
    /\ pc[1] = "done" /\ response[1].code = 500
    /\ result[1].kind = "threw"
    /\ result[2] = Returned(FALSE, SessionTokenAmount("cs_1"))
    /\ status["cs_1"] = "completed"
    /\ tokenBalance[1] = SessionTokenAmount("cs_1")

\* the chain of attempt a exists and has observed no terminal status
Polling(a) ==
    WindowOpened(a) /\ seen[a].completed = 0 /\ seen[a].failed = 0

\* C13: in the polling state a lookup that returns pending or fails keeps
\* the chain polling and schedules exactly one further lookup; it shows no
\* toast, calls no callback and does not touch isProcessing.
C13_PendingOrErrorReschedules ==
    [][ \A a \in Attempts :
          (/\ Polling(a)
           /\ seen'[a].pending + seen'[a].error
                > seen[a].pending + seen[a].error) =>
             /\ Polling(a)'
             /\ timers'[a] = timers[a] + 1
             /\ timers'[a] + inflight'[a] = 1
             /\ notified' = notified
             /\ isProcessing' = isProcessing
      ]_vars

\* after a pending and a failed lookup the chain waits for its next timer
C13_Witness ==
    /\ Polling(1)
    /\ seen[1].pending >= 1 /\ seen[1].error >= 1
    /\ timers[1] = 1
    /\ isProcessing
    /\ notified[1] = NoneNotified

\* C14: a chain that observed 'failed' has shown one failure toast, called
\* onError once, shown no success toast, called no onSuccess, and has no
\* timer and no lookup left.
C14_FailedIsTerminal ==
    \A a \in Attempts :
        seen[a].failed >= 1 =>
           /\ notified[a].failure = 1
           /\ notified[a].onError = 1
           /\ notified[a].success = 0
           /\ notified[a].onSuccess = 0
           /\ timers[a] = 0
           /\ inflight[a] = 0

\* C15: a chain that observed 'completed' or 'failed' schedules nothing
\* more, whatever the notification step did, and has shown at most one
\* success toast and at most one failure toast.
C15_TerminalForEveryOutcome ==
    [][ \A a \in Attempts :
          (seen[a].completed + seen[a].failed >= 1) =>
             /\ timers'[a] = 0
             /\ lookups'[a] = lookups[a]
             /\ notified'[a].success <= 1
             /\ notified'[a].failure <= 1
      ]_vars

\* C16: an attempt has at most one poll timer or lookup in flight, and a
\* lookup is issued only by a timer of the attempt firing.
C16_OnePollingChain ==
    [][ \A a \in Attempts :
          /\ timers'[a] + inflight'[a] <= 1
          /\ lookups'[a] > lookups[a] =>
               /\ timers[a] = 1
               /\ timers'[a] = 0
               /\ inflight'[a] = 1
               /\ lookups'[a] = lookups[a] + 1
          /\ (lookups'[a] > 0 /\ lookups[a] = 0) => WindowOpened(a)
      ]_vars

\* a chain in its second cycle: two lookups issued, one timer pending
C16_Witness ==
    \E a \in Attempts :
        lookups[a] >= 2 /\ timers[a] = 1 /\ inflight[a] = 0

\* a polling chain of the component is live
ChainLive == \E a \in Attempts : timers[a] + inflight[a] > 0

\* C19: isProcessing is true exactly while a polling chain is live, so the
\* button is disabled whenever a chain is live and no attempt starts then.
C19_ProcessingWhileChainLive ==
    [][ /\ isProcessing' <=> ChainLive'
        /\ ChainLive' => ButtonDisabled'
        /\ attempt' > attempt => ~ChainLive
      ]_vars

\* the invocation h has passed the validation of its completion event or
\* has answered it
Classified(h) ==
    /\ pc[h] \in {"importing", "crediting", "returned", "done"}
    /\ IsCheckoutCompleted(event[h])

\* the invalid-payload outcome: acknowledged at once, the store not invoked
InvalidPayloadOutcome(h) ==
    /\ pc[h] = "done"
    /\ response[h] = Resp(200, "received")
    /\ result[h] = NoResult

\* C17: the user identifier is the primary field (metadata.user_id) when it
\* is present and the secondary field (client_reference_id) only when the
\* primary is absent; a primary that is present but not a positive integer
\* is not replaced and leads to the invalid-payload outcome.
C17_PrimaryUserIdPreferred ==
    \A h \in Handlers :
        Classified(h) =>
           LET ev == event[h]
           IN  IF Falsy(ev.user_id)
               THEN userId[h] =
                      (IF Falsy(ev.client_reference_id) THEN Num(0)
                       ELSE ParseInt(ev.client_reference_id))
               ELSE IF DenotesPositiveInteger(ev.user_id)
               THEN userId[h] = ParseInt(ev.user_id)
               ELSE InvalidPayloadOutcome(h)

====
